---- MODULE Spec2Model ----
(***************************************************************************)
(* Model of the command-viewer extension: the CommandFileSystemProvider    *)
(* (commandFs.ts, kept in src/unnamed/part_000) and the import path of the *)
(* CommandsProvider (src/src/extension.ts).                                *)
(*                                                                         *)
(* A JavaScript string is a sequence of UTF-16 code units (naturals), a    *)
(* byte buffer is a sequence of naturals below 256.  `undefined` is the    *)
(* one-element sequence <<-1>> and `null` is <<-2>>; neither is a string.  *)
(***************************************************************************)
EXTENDS Integers, Sequences, FiniteSets, TLC

\* ------------------------------------------------------------------------
\* Bounds of the model
\* ------------------------------------------------------------------------
\* Largest number of entries the adding operations may bring the store to.
MaxCommands == 2
\* Largest number of elements of an imported list.
MaxImport == 2
\* Largest number of snapshot writes a session sees rejected.
MaxRejected == 1
\* Largest number of calls that reach their snapshot write in a session of
\* overlapping calls.
MaxAwaiting == 2

\* ------------------------------------------------------------------------
\* JavaScript values and strings
\* ------------------------------------------------------------------------
Undefined == <<-1>>

\* the value JSON.parse gives for `null`
JsonNull == <<-2>>

Min(a, b) == IF a < b THEN a ELSE b

\* typeof v === 'string'
IsString(v) == v \notin {Undefined, JsonNull}

\* x && ... on a string, undefined or null: '', undefined and null are falsy
Truthy(v) == IsString(v) /\ Len(v) > 0

\* [a-zA-Z0-9]
IsAlnum(c) == (c >= 48 /\ c <= 57) \/ (c >= 65 /\ c <= 90) \/ (c >= 97 /\ c <= 122)

\* [a-zA-Z0-9_]
IsWordChar(c) == IsAlnum(c) \/ c = 95

\* the code units String.prototype.trim removes (WhiteSpace and LineTerminator)
IsWhiteSpace(c) ==
    \/ c \in {9, 10, 11, 12, 13, 32, 160, 5760, 8232, 8233, 8239, 8287, 12288, 65279}
    \/ (c >= 8192 /\ c <= 8202)

\* s.trim() === ''
TrimIsEmpty(s) == \A i \in 1..Len(s) : IsWhiteSpace(s[i])

\* s.substring(from, to) for 0 <= from <= to
Substring(s, from, to) == SubSeq(s, Min(from, Len(s)) + 1, Min(to, Len(s)))

\* s.substring(from)
SubstringFrom(s, from) == SubSeq(s, Min(from, Len(s)) + 1, Len(s))

\* s.replace(/[^a-zA-Z0-9]/g, '_')
ReplaceNonAlnum(s) == [i \in 1..Len(s) |-> IF IsAlnum(s[i]) THEN s[i] ELSE 95]

\* s.startsWith(p)
StartsWith(s, p) == Len(p) <= Len(s) /\ SubSeq(s, 1, Len(p)) = p

\* s.endsWith(p)
EndsWith(s, p) == Len(p) <= Len(s) /\ SubSeq(s, Len(s) - Len(p) + 1, Len(s)) = p

\* s.match(/^[a-zA-Z0-9_]{1,20}$/) is not null
SlugPatternMaxLen == 20
MatchesSlugPattern(s) ==
    /\ Len(s) >= 1
    /\ Len(s) <= SlugPatternMaxLen
    /\ \A i \in 1..Len(s) : IsWordChar(s[i])

\* `${n}` for a natural number n: its decimal digits
RECURSIVE NumberToString(_)
NumberToString(n) ==
    IF n < 10 THEN <<48 + n>> ELSE NumberToString(n \div 10) \o <<48 + (n % 10)>>

\* String literals of the source
DotCmd == <<46, 99, 109, 100>>                                   \* ".cmd"
Dash == <<45>>                                                    \* "-"
Slash == <<47>>                                                   \* "/"
UntitledCommand ==                                                \* "untitled_command"
    <<117, 110, 116, 105, 116, 108, 101, 100, 95, 99, 111, 109, 109, 97, 110, 100>>

\* ------------------------------------------------------------------------
\* UTF-8 (Buffer.from(str, 'utf8') and Buffer.toString('utf8'))
\* ------------------------------------------------------------------------
ReplacementChar == 65533

IsContinuation(b) == b >= 128 /\ b <= 191

IsHighSurrogate(c) == c >= 55296 /\ c <= 56319

IsLowSurrogate(c) == c >= 56320 /\ c <= 57343

\* the UTF-8 bytes of one code point
EncodeCodePoint(cp) ==
    IF cp < 128 THEN <<cp>>
    ELSE IF cp < 2048 THEN <<192 + (cp \div 64), 128 + (cp % 64)>>
    ELSE IF cp < 65536 THEN
        <<224 + (cp \div 4096), 128 + ((cp \div 64) % 64), 128 + (cp % 64)>>
    ELSE <<240 + (cp \div 262144), 128 + ((cp \div 4096) % 64),
           128 + ((cp \div 64) % 64), 128 + (cp % 64)>>

\* Buffer.from(s, 'latin1') in the place of Buffer.from(s, 'utf8')
Utf8Encode_Latin1(s) == [i \in 1..Len(s) |-> s[i] % 256]

\* Buffer.from(s, 'utf8'): a surrogate pair is one code point, a lone
\* surrogate is written as U+FFFD
RECURSIVE Utf8Encode(_)
Utf8Encode(s) ==
    IF Len(s) = 0 THEN <<>>
    ELSE IF IsHighSurrogate(s[1]) /\ Len(s) >= 2 /\ IsLowSurrogate(s[2]) THEN
        EncodeCodePoint(65536 + (s[1] - 55296) * 1024 + (s[2] - 56320))
            \o Utf8Encode(SubSeq(s, 3, Len(s)))
    ELSE IF IsHighSurrogate(s[1]) \/ IsLowSurrogate(s[1]) THEN
        EncodeCodePoint(ReplacementChar) \o Utf8Encode(Tail(s))
    ELSE EncodeCodePoint(s[1]) \o Utf8Encode(Tail(s))

\* the range the second byte of a multi-byte sequence must lie in
SecondByteOk(lead, b) ==
    IF lead = 224 THEN b >= 160 /\ b <= 191
    ELSE IF lead = 237 THEN b >= 128 /\ b <= 159
    ELSE IF lead = 240 THEN b >= 144 /\ b <= 191
    ELSE IF lead = 244 THEN b >= 128 /\ b <= 143
    ELSE IsContinuation(b)

\* the UTF-16 code units of one code point
CodeUnits(cp) ==
    IF cp < 65536 THEN <<cp>>
    ELSE <<55296 + ((cp - 65536) \div 1024), 56320 + ((cp - 65536) % 1024)>>

\* Buffer.toString('utf8'): every maximal ill-formed subpart becomes U+FFFD
RECURSIVE Utf8Decode(_)
Utf8Decode(b) ==
    IF Len(b) = 0 THEN <<>>
    ELSE LET b1 == b[1]
             rest(n) == Utf8Decode(SubSeq(b, n + 1, Len(b)))
             has(n) == Len(b) >= n
         IN IF b1 < 128 THEN <<b1>> \o rest(1)
            ELSE IF b1 >= 194 /\ b1 <= 223 THEN
                IF has(2) /\ IsContinuation(b[2])
                THEN <<(b1 - 192) * 64 + (b[2] - 128)>> \o rest(2)
                ELSE <<ReplacementChar>> \o rest(1)
            ELSE IF b1 >= 224 /\ b1 <= 239 THEN
                IF ~(has(2) /\ SecondByteOk(b1, b[2])) THEN <<ReplacementChar>> \o rest(1)
                ELSE IF ~(has(3) /\ IsContinuation(b[3])) THEN <<ReplacementChar>> \o rest(2)
                ELSE <<(b1 - 224) * 4096 + (b[2] - 128) * 64 + (b[3] - 128)>> \o rest(3)
            ELSE IF b1 >= 240 /\ b1 <= 244 THEN
                IF ~(has(2) /\ SecondByteOk(b1, b[2])) THEN <<ReplacementChar>> \o rest(1)
                ELSE IF ~(has(3) /\ IsContinuation(b[3])) THEN <<ReplacementChar>> \o rest(2)
                ELSE IF ~(has(4) /\ IsContinuation(b[4])) THEN <<ReplacementChar>> \o rest(3)
                ELSE CodeUnits((b1 - 240) * 262144 + (b[2] - 128) * 4096
                               + (b[3] - 128) * 64 + (b[4] - 128)) \o rest(4)
            ELSE <<ReplacementChar>> \o rest(1)

\* ------------------------------------------------------------------------
\* CommandItem and the ordered map _commands
\* ------------------------------------------------------------------------
\* interface CommandItem { name?: string; command: string }
CommandItem(name, command) == [name |-> name, command |-> command]

\* A Map<string, CommandItem> is the sequence of its entries in insertion
\* order, with pairwise distinct keys.
MapKeys(m) == [i \in 1..Len(m) |-> m[i].key]

MapKeySet(m) == {m[i].key : i \in 1..Len(m)}

\* Array.from(m.values())
MapValues(m) == [i \in 1..Len(m) |-> m[i].item]

\* m.has(k)
MapHas(m, k) == \E i \in 1..Len(m) : m[i].key = k

\* m.get(k), for a key that is present
MapGet(m, k) == m[CHOOSE i \in 1..Len(m) : m[i].key = k].item

\* m.set(k, v): a present key keeps its position, a new key goes last
MapSet(m, k, v) ==
    IF MapHas(m, k)
    THEN [i \in 1..Len(m) |-> IF m[i].key = k THEN [key |-> k, item |-> v] ELSE m[i]]
    ELSE Append(m, [key |-> k, item |-> v])

\* m.delete(k)
MapDelete(m, k) == SelectSeq(m, LAMBDA e : e.key # k)

SlugLength == 20

\* the base name without `.replace(/[^a-zA-Z0-9]/g, '_')`
BaseName_NoReplace(item) ==
    IF Truthy(item.name) /\ ~TrimIsEmpty(item.name)
    THEN item.name
    ELSE Substring(item.command, 0, SlugLength)

\* item.name && item.name.trim() !== '' ? item.name
\*     : item.command.substring(0, 20).replace(/[^a-zA-Z0-9]/g, '_')
BaseName(item) ==
    IF Truthy(item.name) /\ ~TrimIsEmpty(item.name)
    THEN item.name
    ELSE ReplaceNonAlnum(Substring(item.command, 0, SlugLength))

generateFileName(item) ==
    LET baseName == BaseName(item)
    IN (IF Len(baseName) = 0 THEN UntitledCommand ELSE baseName) \o DotCmd

\* the set of entries after the forEach of loadCommandsFromGlobalState
RECURSIVE LoadInto(_, _)
LoadInto(m, storedCommands) ==
    IF Len(storedCommands) = 0 THEN m
    ELSE LoadInto(MapSet(m, generateFileName(Head(storedCommands)), Head(storedCommands)),
                  Tail(storedCommands))

loadCommandsFromGlobalState(storedCommands) == LoadInto(<<>>, storedCommands)

\* uri.path.substring(1)
FileNameOf(path) == SubstringFrom(path, 1)

\* fileName.endsWith('.cmd') ? fileName.substring(0, fileName.length - 4) : fileName
NamePart(fileName) ==
    IF EndsWith(fileName, DotCmd) THEN Substring(fileName, 0, Len(fileName) - 4) ELSE fileName

\* vscode.Uri.parse(`commandfile:/${fileName}`).path for a file name that
\* neither starts with "/" nor holds "%": the path ends before the first
\* "?" or "#"
RECURSIVE UpToQueryOrFragment(_)
UpToQueryOrFragment(s) ==
    IF Len(s) = 0 \/ Head(s) \in {35, 63} THEN <<>>
    ELSE <<Head(s)>> \o UpToQueryOrFragment(Tail(s))

UriParsePath(fileName) == Slash \o UpToQueryOrFragment(fileName)

\* ------------------------------------------------------------------------
\* Results of the read operations
\* ------------------------------------------------------------------------
Returned(v) == [status |-> "ok", value |-> v]

Thrown(e) == [status |-> e, value |-> <<>>]

readFile(m, path) ==
    LET fileName == FileNameOf(path)
    IN IF MapHas(m, fileName)
       THEN Returned(Utf8Encode(MapGet(m, fileName).command))
       ELSE Thrown("FileNotFound")

\* a stat whose size is the length of the string
stat_StringLength(m, path) ==
    IF path = Slash THEN Returned([type |-> "Directory", size |-> 0])
    ELSE LET fileName == FileNameOf(path)
         IN IF MapHas(m, fileName)
            THEN Returned([type |-> "File", size |-> Len(MapGet(m, fileName).command)])
            ELSE Thrown("FileNotFound")

stat(m, path) ==
    IF path = Slash THEN Returned([type |-> "Directory", size |-> 0])
    ELSE LET fileName == FileNameOf(path)
         IN IF MapHas(m, fileName)
            THEN Returned([type |-> "File",
                           size |-> Len(Utf8Encode(MapGet(m, fileName).command))])
            ELSE Thrown("FileNotFound")

readDirectory(m, path) ==
    IF path = Slash
    THEN Returned([i \in 1..Len(m) |-> <<m[i].key, "File">>])
    ELSE Thrown("FileNotADirectory")

getAllCommandItems(m) == MapValues(m)

\* new CommandNode(item, fileName)
CommandNode(item, fileName) == [item |-> item, fileName |-> fileName]

\* the file name getChildren computes for a record
ViewFileName(item) == BaseName(item) \o DotCmd

\* the nodes of the list view
getChildren(m) ==
    LET allCommands == getAllCommandItems(m)
    IN [i \in 1..Len(allCommands) |->
           CommandNode(allCommands[i], ViewFileName(allCommands[i]))]

\* ------------------------------------------------------------------------
\* Imported files, as JSON.parse returns them
\* ------------------------------------------------------------------------
\* an array of objects; an object without a field holds undefined there
JsonArray(elements) == [isArray |-> TRUE, elements |-> elements]

\* a value that is no array, such as {}
JsonNotArray == [isArray |-> FALSE, elements |-> <<>>]

\* Array.isArray(importedCommands) && importedCommands.every(cmd =>
\*     typeof cmd === 'object' && typeof cmd.command === 'string')
ValidImport(parsed) ==
    /\ parsed.isArray
    /\ \A i \in 1..Len(parsed.elements) : IsString(parsed.elements[i].command)

\* ------------------------------------------------------------------------
\* Inputs
\* ------------------------------------------------------------------------
Empty == <<>>                                                     \* ""
Blank == <<32>>                                                   \* " "
GitStatus == <<103, 105, 116, 32, 115, 116, 97, 116, 117, 115>>   \* "git status"
EchoHi == <<101, 99, 104, 111, 32, 104, 105>>                     \* "echo hi"
NpmRunBuild ==                                                    \* "npm run build"
    <<110, 112, 109, 32, 114, 117, 110, 32, 98, 117, 105, 108, 100>>
Build == <<66, 117, 105, 108, 100>>                               \* "Build"
BuildLower == <<98, 117, 105, 108, 100>>                          \* "build"
MyTask == <<77, 121, 32, 84, 97, 115, 107>>                       \* "My Task"
MyTaskNow == <<77, 121, 32, 84, 97, 115, 107, 32, 110, 111, 119>> \* "My Task now"
DockerComposeUpBuild ==                                           \* "docker compose up --build"
    <<100, 111, 99, 107, 101, 114, 32, 99, 111, 109, 112, 111, 115, 101, 32, 117,
      112, 32, 45, 45, 98, 117, 105, 108, 100>>
CafeBytes == <<99, 97, 102, 195, 169>>                            \* "café" in UTF-8
IllFormedBytes == <<101, 255, 226, 130>>                          \* "e", 0xFF, a cut-off U+20AC

PathOf(fileName) == Slash \o fileName

\* The vocabularies a session draws its inputs from.
Vocabularies ==
    {"git", "untitled", "build", "lower", "long", "task", "prefix", "empty", "blank",
     "cafe", "illformed", "import", "invalid", "nullname", "create", "duplicate"}

\* the records handed to addCommandItem
Items(v) ==
    CASE v = "git" -> {CommandItem(Undefined, GitStatus)}
      [] v = "untitled" -> {CommandItem(Undefined, Empty)}
      [] v = "build" -> {CommandItem(Build, NpmRunBuild)}
      [] v = "lower" -> {CommandItem(Build, NpmRunBuild)}
      [] v = "long" -> {CommandItem(Undefined, DockerComposeUpBuild)}
      [] v = "task" -> {CommandItem(MyTask, EchoHi)}
      [] v = "prefix" -> {}
      [] v = "empty" -> {CommandItem(Empty, EchoHi)}
      [] v = "blank" -> {CommandItem(Blank, EchoHi)}
      [] v = "cafe" -> {}
      [] v = "illformed" -> {}
      [] v = "import" -> {CommandItem(Build, NpmRunBuild), CommandItem(Build, EchoHi)}
      [] v = "invalid" -> {}
      [] v = "nullname" -> {}
      [] v = "create" -> {}
      [] v = "duplicate" -> {CommandItem(Undefined, EchoHi)}

\* the objects found in imported files
ImportedItems(v) ==
    CASE v \in {"untitled", "empty", "import"} -> Items(v)
      [] v = "invalid" -> {CommandItem(Undefined, EchoHi), CommandItem(Undefined, Undefined)}
      [] v = "nullname" -> {CommandItem(JsonNull, EchoHi)}
      [] OTHER -> {}

\* the paths the editor hands to the provider, besides those of the current keys
Paths(v) ==
    CASE v = "git" -> {PathOf(GitStatus \o DotCmd)}
      [] v = "untitled" -> {PathOf(UntitledCommand \o DotCmd)}
      [] v = "build" -> {}
      [] v = "lower" -> {PathOf(BuildLower \o DotCmd)}
      [] v = "long" -> {}
      [] v = "task" -> {PathOf(MyTask \o DotCmd)}
      [] v = "prefix" -> {PathOf(MyTask \o DotCmd)}
      [] v = "empty" -> {PathOf(DotCmd)}
      [] v = "blank" -> {PathOf(Blank \o DotCmd)}
      [] v = "cafe" -> {PathOf(Build)}
      [] v = "illformed" -> {Slash}
      [] v = "import" -> {}
      [] v = "invalid" -> {}
      [] v = "nullname" -> {}
      [] v = "create" -> {}
      [] v = "duplicate" -> {}

\* the buffers the editor saves
Contents(v) ==
    CASE v = "git" -> {Utf8Encode(GitStatus)}
      [] v = "untitled" -> {Utf8Encode(Empty)}
      [] v = "build" -> {Utf8Encode(NpmRunBuild)}
      [] v = "lower" -> {}
      [] v = "long" -> {}
      [] v = "task" -> {Utf8Encode(EchoHi)}
      [] v = "prefix" -> {Utf8Encode(MyTaskNow)}
      [] v = "empty" -> {Utf8Encode(EchoHi)}
      [] v = "blank" -> {Utf8Encode(EchoHi)}
      [] v = "cafe" -> {CafeBytes}
      [] v = "illformed" -> {IllFormedBytes}
      [] v = "import" -> {}
      [] v = "invalid" -> {}
      [] v = "nullname" -> {}
      [] v = "create" -> {}
      [] v = "duplicate" -> {}

\* ------------------------------------------------------------------------
\* State
\* ------------------------------------------------------------------------
VARIABLES
    vocabulary,   \* the vocabulary of this session's inputs
    commands,     \* CommandFileSystemProvider._commands
    globalState,  \* context.globalState's 'customCommands'
    log,          \* what the last call did, in order: snapshot writes and fired batches
    result,       \* how the last call ended
    lastOp,       \* the last call: its name and, for an import, the imported list
    rejected,     \* the number of snapshot writes rejected so far
    awaiting      \* the calls that reached `await globalState.update`, oldest
                  \* first, each with the stage it is at

vars == <<vocabulary, commands, globalState, log, result, lastOp, rejected, awaiting>>

\* the last call
Call(name) == [name |-> name, importedCommands |-> <<>>]

\* log entries
Updated(snapshot) == [kind |-> "update", events |-> <<>>, snapshot |-> snapshot]

Fired(events) == [kind |-> "fire", events |-> events, snapshot |-> <<>>]

Event(type, path) == [type |-> type, path |-> path]

\* the paths of the current keys
KeyPaths == {PathOf(commands[i].key) : i \in 1..Len(commands)}

Init ==
    /\ vocabulary \in Vocabularies
    /\ globalState = <<>>
    /\ commands = loadCommandsFromGlobalState(<<>>)
    /\ log = <<>>
    /\ result = "ok"
    /\ lastOp = Call("activate")
    /\ rejected = 0
    /\ awaiting = <<>>

\* a call that throws before it changes anything
Throws(e) ==
    /\ result' = e
    /\ log' = <<>>
    /\ UNCHANGED <<commands, globalState, rejected>>

\* what saveCommandsToGlobalState writes and fires for the mapping m
saveCommandsToGlobalState(m) ==
    <<Updated(MapValues(m)), Fired(<<Event("Changed", Slash)>>)>>

\* a tail that fires the call's batch before the snapshot is written
SaveAndFire_FiresFirst(m, persists, batch) ==
    /\ commands' = m
    /\ IF persists
       THEN /\ globalState' = MapValues(m)
            /\ log' = <<Fired(batch)>> \o saveCommandsToGlobalState(m)
            /\ result' = "ok"
            /\ rejected' = rejected
       ELSE /\ rejected < MaxRejected
            /\ globalState' = globalState
            /\ log' = <<>>
            /\ result' = "PersistenceError"
            /\ rejected' = rejected + 1

\* a tail that takes the mutation back when the snapshot write is rejected
SaveAndFire_RollsBack(m, persists, batch) ==
    IF persists
    THEN /\ commands' = m
         /\ globalState' = MapValues(m)
         /\ log' = saveCommandsToGlobalState(m) \o <<Fired(batch)>>
         /\ result' = "ok"
         /\ rejected' = rejected
    ELSE /\ rejected < MaxRejected
         /\ commands' = commands
         /\ globalState' = globalState
         /\ log' = <<>>
         /\ result' = "PersistenceError"
         /\ rejected' = rejected + 1

\* the tail shared by the mutating calls: _commands is m by now; the
\* snapshot write is awaited and the call's own batch is fired after it.
\* persists = FALSE is a rejected globalState.update: the call rejects
\* before anything is fired.
SaveAndFire(m, persists, batch) ==
    /\ commands' = m
    /\ IF persists
       THEN /\ globalState' = MapValues(m)
            /\ log' = saveCommandsToGlobalState(m) \o <<Fired(batch)>>
            /\ result' = "ok"
            /\ rejected' = rejected
       ELSE /\ rejected < MaxRejected
            /\ globalState' = globalState
            /\ log' = <<>>
            /\ result' = "PersistenceError"
            /\ rejected' = rejected + 1

\* new CommandFileSystemProvider(context), on activation
activate ==
    /\ lastOp' = Call("activate")
    /\ commands' = loadCommandsFromGlobalState(globalState)
    /\ log' = <<>>
    /\ result' = "ok"
    /\ UNCHANGED <<vocabulary, globalState, rejected, awaiting>>

\* the second check of writeFile without `options.create &&`
WriteFileCheck_IgnoresCreate(exists, create, overwrite) ==
    IF ~create /\ ~exists THEN "FileNotFound"
    ELSE IF exists /\ ~overwrite THEN "FileExists"
    ELSE "ok"

\* the two checks of writeFile; exists is `existingCommand` being an object
WriteFileCheck(exists, create, overwrite) ==
    IF ~create /\ ~exists THEN "FileNotFound"
    ELSE IF exists /\ create /\ ~overwrite THEN "FileExists"
    ELSE "ok"

\* commandName of writeFile; existingName is `existingCommand?.name`
WriteFileCommandName(namePart, newCommandContent, existingName) ==
    IF ~MatchesSlugPattern(namePart) /\ ~StartsWith(newCommandContent, namePart)
    THEN namePart
    ELSE IF Truthy(existingName) THEN existingName
    ELSE Undefined

writeFile(path, content, create, overwrite, persists) ==
    LET fileName == FileNameOf(path)
        newCommandContent == Utf8Decode(content)
        exists == MapHas(commands, fileName)
        existingName == IF exists THEN MapGet(commands, fileName).name ELSE Undefined
        commandName ==
            WriteFileCommandName(NamePart(fileName), newCommandContent, existingName)
        check == WriteFileCheck(exists, create, overwrite)
    IN /\ lastOp' = Call("writeFile")
       /\ UNCHANGED <<vocabulary, awaiting>>
       /\ IF check # "ok" THEN Throws(check)
          ELSE /\ exists \/ Len(commands) < MaxCommands
               /\ SaveAndFire(MapSet(commands, fileName,
                                     CommandItem(commandName, newCommandContent)),
                              persists, <<Event("Changed", path)>>)

\* a delete that empties the store when options.recursive is set
delete_Recursive(path, recursive, persists) ==
    LET fileName == FileNameOf(path)
    IN /\ lastOp' = Call("delete")
       /\ UNCHANGED <<vocabulary, awaiting>>
       /\ IF MapHas(commands, fileName)
          THEN SaveAndFire(IF recursive THEN <<>> ELSE MapDelete(commands, fileName),
                           persists, <<Event("Deleted", path)>>)
          ELSE Throws("FileNotFound")

\* options.recursive is not read
delete(path, recursive, persists) ==
    LET fileName == FileNameOf(path)
    IN /\ lastOp' = Call("delete")
       /\ UNCHANGED <<vocabulary, awaiting>>
       /\ IF MapHas(commands, fileName)
          THEN SaveAndFire(MapDelete(commands, fileName), persists,
                           <<Event("Deleted", path)>>)
          ELSE Throws("FileNotFound")

\* rename without its second check
RenameCheck_NoExistsCheck(hasOld, hasNew, overwrite) ==
    IF ~hasOld THEN "FileNotFound" ELSE "ok"

\* the two checks of rename
RenameCheck(hasOld, hasNew, overwrite) ==
    IF ~hasOld THEN "FileNotFound"
    ELSE IF hasNew /\ ~overwrite THEN "FileExists"
    ELSE "ok"

\* newCommandName of rename
RenameCommandName(newNamePart, oldNamePart, oldCommand) ==
    IF newNamePart # oldNamePart
    THEN IF /\ ~MatchesSlugPattern(newNamePart)
            /\ ~StartsWith(oldCommand.command, newNamePart)
         THEN newNamePart
         ELSE IF TrimIsEmpty(newNamePart) THEN Undefined
         ELSE oldCommand.name
    ELSE oldCommand.name

\* the batch of rename with its two events swapped
RenameEvents_CreatedFirst(oldPath, newPath) ==
    <<Event("Created", newPath), Event("Deleted", oldPath)>>

\* the batch rename fires
RenameEvents(oldPath, newPath) ==
    <<Event("Deleted", oldPath), Event("Created", newPath)>>

\* rename without `this._commands.delete(oldFileName)`
rename_KeepsOld(oldPath, newPath, overwrite, persists) ==
    LET oldFileName == FileNameOf(oldPath)
        newFileName == FileNameOf(newPath)
        oldCommand == MapGet(commands, oldFileName)
        newCommandName ==
            RenameCommandName(NamePart(newFileName), NamePart(oldFileName), oldCommand)
        check == RenameCheck(MapHas(commands, oldFileName), MapHas(commands, newFileName),
                             overwrite)
    IN /\ lastOp' = Call("rename")
       /\ UNCHANGED <<vocabulary, awaiting>>
       /\ IF check # "ok" THEN Throws(check)
          ELSE SaveAndFire(MapSet(commands, newFileName,
                                  CommandItem(newCommandName, oldCommand.command)),
                           persists,
                           RenameEvents(oldPath, newPath))

rename(oldPath, newPath, overwrite, persists) ==
    LET oldFileName == FileNameOf(oldPath)
        newFileName == FileNameOf(newPath)
        oldCommand == MapGet(commands, oldFileName)
        newCommandName ==
            RenameCommandName(NamePart(newFileName), NamePart(oldFileName), oldCommand)
        check == RenameCheck(MapHas(commands, oldFileName), MapHas(commands, newFileName),
                             overwrite)
    IN /\ lastOp' = Call("rename")
       /\ UNCHANGED <<vocabulary, awaiting>>
       /\ IF check # "ok" THEN Throws(check)
          ELSE SaveAndFire(MapSet(MapDelete(commands, oldFileName), newFileName,
                                  CommandItem(newCommandName, oldCommand.command)),
                           persists,
                           RenameEvents(oldPath, newPath))

\* a loop that numbers the file without its base
UniqueFileName_NoBase(m, item, uniqueFileName, counter) ==
    IF MapHas(m, uniqueFileName) THEN NumberToString(counter) \o DotCmd
    ELSE uniqueFileName

\* the while loop of addCommandItem
RECURSIVE UniqueFileName(_, _, _, _)
UniqueFileName(m, item, uniqueFileName, counter) ==
    IF MapHas(m, uniqueFileName)
    THEN UniqueFileName(m, item,
                        BaseName(item) \o Dash \o NumberToString(counter) \o DotCmd,
                        counter + 1)
    ELSE uniqueFileName

\* addCommandItem without its while loop
AddedFileName_NoLoop(m, item) == generateFileName(item)

\* the key addCommandItem stores item under
AddedFileName(m, item) == UniqueFileName(m, item, generateFileName(item), 1)

addCommandItem(item, persists) ==
    LET uniqueFileName == AddedFileName(commands, item)
    IN /\ lastOp' = Call("addCommandItem")
       /\ UNCHANGED <<vocabulary, awaiting>>
       /\ Len(commands) < MaxCommands
       /\ SaveAndFire(MapSet(commands, uniqueFileName, item), persists,
                      <<Event("Created", UriParsePath(uniqueFileName))>>)

\* createNewCommand: either input box may be dismissed (undefined); a
\* dismissed first box ends the command before the provider is called
createNewCommand(commandContent, name, persists) ==
    IF commandContent = Undefined THEN UNCHANGED vars
    ELSE addCommandItem(CommandItem(IF Truthy(name) THEN name ELSE Undefined,
                                    commandContent), persists)

\* duplicateCommand: a dismissed input box ends the command before the
\* provider is called
duplicateCommand(node, newName, persists) ==
    LET originalItem == node.item
    IN IF newName = Undefined THEN UNCHANGED vars
       ELSE addCommandItem(CommandItem(newName, originalItem.command), persists)

\* removeCommand: the path is parsed from the file name of the node; any
\* answer but 'Yes' ends the command before the provider is called
removeCommand(node, confirmation, persists) ==
    IF confirmation # "Yes" THEN UNCHANGED vars
    ELSE delete(UriParsePath(node.fileName), FALSE, persists)

\* a duplicate check that compares the name only
IsDuplicate_NameOnly(currentCommands, importedCmd) ==
    \E i \in 1..Len(currentCommands) : currentCommands[i].name = importedCmd.name

\* `existingCmd.name === importedCmd.name && existingCmd.command === importedCmd.command`
\* for some existingCmd of currentCommands
IsDuplicate(currentCommands, importedCmd) ==
    \E i \in 1..Len(currentCommands) :
        /\ currentCommands[i].name = importedCmd.name
        /\ currentCommands[i].command = importedCmd.command

\* the first for loop of importCommands
NewCommands(currentCommands, importedCommands) ==
    SelectSeq(importedCommands, LAMBDA cmd : ~IsDuplicate(currentCommands, cmd))

\* the second for loop of importCommands: the mapping after the awaited
\* addCommandItem calls
RECURSIVE AddAll(_, _)
AddAll(m, newCommands) ==
    IF Len(newCommands) = 0 THEN m
    ELSE LET item == Head(newCommands)
         IN AddAll(MapSet(m, AddedFileName(m, item), item), Tail(newCommands))

\* and what those calls write and fire
RECURSIVE AddAllLog(_, _)
AddAllLog(m, newCommands) ==
    IF Len(newCommands) = 0 THEN <<>>
    ELSE LET item == Head(newCommands)
             uniqueFileName == AddedFileName(m, item)
             added == MapSet(m, uniqueFileName, item)
         IN saveCommandsToGlobalState(added)
                \o <<Fired(<<Event("Created", UriParsePath(uniqueFileName))>>)>>
                \o AddAllLog(added, Tail(newCommands))

\* importCommands on the parsed file.  failedWrite is the number of the
\* addCommandItem call whose snapshot write is rejected, 0 when none is:
\* that call has changed _commands, its rejection ends the second loop.
importCommands(parsed, failedWrite) ==
    LET importedCommands == parsed.elements
        currentCommands == getAllCommandItems(commands)
        newCommands == NewCommands(currentCommands, importedCommands)
        saved == IF failedWrite = 0 THEN newCommands
                 ELSE SubSeq(newCommands, 1, failedWrite - 1)
        added == IF failedWrite = 0 THEN newCommands
                 ELSE SubSeq(newCommands, 1, failedWrite)
    IN /\ lastOp' = [name |-> "importCommands", importedCommands |-> importedCommands]
       /\ UNCHANGED <<vocabulary, awaiting>>
       /\ IF ~ValidImport(parsed) THEN failedWrite = 0 /\ Throws("ValidationError")
          ELSE /\ Len(commands) + Len(newCommands) <= MaxCommands
               /\ failedWrite <= Len(newCommands)
               /\ failedWrite > 0 => rejected < MaxRejected
               /\ rejected' = IF failedWrite = 0 THEN rejected ELSE rejected + 1
               /\ result' = IF failedWrite = 0 THEN "ok" ELSE "PersistenceError"
               /\ commands' = AddAll(commands, added)
               /\ globalState' = IF Len(saved) > 0
                                 THEN MapValues(AddAll(commands, saved))
                                 ELSE globalState
               /\ log' = AddAllLog(commands, saved)

\* the imported lists
RECURSIVE SeqsUpTo(_, _)
SeqsUpTo(S, n) ==
    IF n = 0 THEN {<<>>}
    ELSE LET shorter == SeqsUpTo(S, n - 1)
         IN shorter \cup {Append(s, x) : s \in shorter, x \in S}

WriteFileStep(persists) ==
    \E path \in Paths(vocabulary) \cup KeyPaths, content \in Contents(vocabulary),
       create \in BOOLEAN, overwrite \in BOOLEAN :
        writeFile(path, content, create, overwrite, persists)

DeleteStep(persists) ==
    \E path \in Paths(vocabulary) \cup KeyPaths, recursive \in BOOLEAN :
        delete(path, recursive, persists)

RenameStep(persists) ==
    \E oldPath \in Paths(vocabulary) \cup KeyPaths,
       newPath \in Paths(vocabulary) \cup KeyPaths, overwrite \in BOOLEAN :
        rename(oldPath, newPath, overwrite, persists)

AddCommandItemStep(persists) ==
    \E item \in Items(vocabulary) : addCommandItem(item, persists)

\* what the user types into the input boxes; undefined is a dismissed box
TypedCommands(v) == IF v = "create" THEN {EchoHi, Undefined} ELSE {}

TypedNames(v) ==
    CASE v = "create" -> {Blank, Undefined}
      [] v = "duplicate" -> {Empty, Undefined}
      [] OTHER -> {}

CreateNewCommandStep(persists) ==
    \E commandContent \in TypedCommands(vocabulary), name \in TypedNames(vocabulary) :
        createNewCommand(commandContent, name, persists)

DuplicateCommandStep(persists) ==
    \E i \in 1..Len(commands), newName \in TypedNames(vocabulary) :
        duplicateCommand(getChildren(commands)[i], newName, persists)

RemoveCommandStep(persists) ==
    \E i \in 1..Len(commands), confirmation \in {"Yes", "dismissed"} :
        removeCommand(getChildren(commands)[i], confirmation, persists)

\* the files the user picks for an import
ImportedFiles(v) ==
    {JsonArray(s) : s \in SeqsUpTo(ImportedItems(v), MaxImport)}
        \cup (IF v = "invalid" THEN {JsonNotArray} ELSE {})

ImportCommandsStep(persists) ==
    \E parsed \in ImportedFiles(vocabulary),
       failedWrite \in (IF persists THEN {0} ELSE 1..MaxImport) :
        importCommands(parsed, failedWrite)

\* Every call runs to completion and every snapshot write succeeds.
Next ==
    \/ activate
    \/ WriteFileStep(TRUE)
    \/ DeleteStep(TRUE)
    \/ RenameStep(TRUE)
    \/ AddCommandItemStep(TRUE)
    \/ CreateNewCommandStep(TRUE)
    \/ DuplicateCommandStep(TRUE)
    \/ RemoveCommandStep(TRUE)
    \/ ImportCommandsStep(TRUE)

Spec == Init /\ [][Next]_vars

\* The sessions in which globalState.update may reject: the calls of the
\* provider and the import, on the vocabularies of FailVocabularies.
FailVocabularies == {"task", "prefix", "cafe", "nullname"}

InitFail == Init /\ vocabulary \in FailVocabularies

NextFail ==
    \/ activate
    \/ \E persists \in BOOLEAN : WriteFileStep(persists)
    \/ \E persists \in BOOLEAN : DeleteStep(persists)
    \/ \E persists \in BOOLEAN : RenameStep(persists)
    \/ \E persists \in BOOLEAN : AddCommandItemStep(persists)
    \/ \E persists \in BOOLEAN : ImportCommandsStep(persists)

SpecFail == InitFail /\ [][NextFail]_vars

\* ------------------------------------------------------------------------
\* Calls that overlap: a call runs up to its `await` of the snapshot write
\* in one step, the write completes later, and the call goes on after that.
\* ------------------------------------------------------------------------
\* a call that stores the values of the mapping before its own change
Suspend_StaleValues(name, m, batch) ==
    /\ Len(awaiting) < MaxAwaiting
    /\ commands' = m
    /\ awaiting' = Append(awaiting, [name |-> name, snapshot |-> MapValues(commands),
                                     batch |-> batch, stage |-> "writing"])
    /\ lastOp' = Call(name)
    /\ result' = "awaiting"
    /\ log' = <<>>
    /\ UNCHANGED <<vocabulary, globalState, rejected>>

\* the call has changed _commands to m, has passed Array.from(values()) to
\* globalState.update and is suspended on the promise
Suspend(name, m, batch) ==
    /\ Len(awaiting) < MaxAwaiting
    /\ commands' = m
    /\ awaiting' = Append(awaiting, [name |-> name, snapshot |-> MapValues(m),
                                     batch |-> batch, stage |-> "writing"])
    /\ lastOp' = Call(name)
    /\ result' = "awaiting"
    /\ log' = <<>>
    /\ UNCHANGED <<vocabulary, globalState, rejected>>

\* the call throws on its checks
ThrowsAtOnce(name, e) ==
    /\ lastOp' = Call(name)
    /\ Throws(e)
    /\ UNCHANGED <<vocabulary, awaiting>>

writeFileUntilAwait(path, content, create, overwrite) ==
    LET fileName == FileNameOf(path)
        newCommandContent == Utf8Decode(content)
        exists == MapHas(commands, fileName)
        existingName == IF exists THEN MapGet(commands, fileName).name ELSE Undefined
        commandName ==
            WriteFileCommandName(NamePart(fileName), newCommandContent, existingName)
        check == WriteFileCheck(exists, create, overwrite)
    IN IF check # "ok" THEN ThrowsAtOnce("writeFile", check)
       ELSE /\ exists \/ Len(commands) < MaxCommands
            /\ Suspend("writeFile",
                       MapSet(commands, fileName, CommandItem(commandName, newCommandContent)),
                       <<Event("Changed", path)>>)

deleteUntilAwait(path, recursive) ==
    LET fileName == FileNameOf(path)
    IN IF MapHas(commands, fileName)
       THEN Suspend("delete", MapDelete(commands, fileName), <<Event("Deleted", path)>>)
       ELSE ThrowsAtOnce("delete", "FileNotFound")

renameUntilAwait(oldPath, newPath, overwrite) ==
    LET oldFileName == FileNameOf(oldPath)
        newFileName == FileNameOf(newPath)
        oldCommand == MapGet(commands, oldFileName)
        newCommandName ==
            RenameCommandName(NamePart(newFileName), NamePart(oldFileName), oldCommand)
        check == RenameCheck(MapHas(commands, oldFileName), MapHas(commands, newFileName),
                             overwrite)
    IN IF check # "ok" THEN ThrowsAtOnce("rename", check)
       ELSE Suspend("rename",
                    MapSet(MapDelete(commands, oldFileName), newFileName,
                           CommandItem(newCommandName, oldCommand.command)),
                    RenameEvents(oldPath, newPath))

addCommandItemUntilAwait(item) ==
    LET uniqueFileName == AddedFileName(commands, item)
    IN /\ Len(commands) < MaxCommands
       /\ Suspend("addCommandItem", MapSet(commands, uniqueFileName, item),
                  <<Event("Created", UriParsePath(uniqueFileName))>>)

\* the calls that are at the stage
AtStage(stage) == {i \in 1..Len(awaiting) : awaiting[i].stage = stage}

\* the oldest snapshot write that is under way completes
WriteCompletes ==
    \E i \in AtStage("writing") :
        /\ \A j \in 1..(i - 1) : awaiting[j].stage # "writing"
        /\ globalState' = awaiting[i].snapshot
        /\ awaiting' = [awaiting EXCEPT ![i].stage = "written"]
        /\ UNCHANGED <<vocabulary, commands, log, result, lastOp, rejected>>

\* the oldest suspended call goes on after its await: the Changed of the
\* root is fired, then the batch of the call
Resume ==
    \E i \in AtStage("written") :
        /\ \A j \in 1..(i - 1) : awaiting[j].stage = "resumed"
        /\ lastOp' = Call(awaiting[i].name)
        /\ result' = "ok"
        /\ log' = <<Updated(awaiting[i].snapshot), Fired(<<Event("Changed", Slash)>>),
                    Fired(awaiting[i].batch)>>
        /\ awaiting' = [awaiting EXCEPT ![i].stage = "resumed"]
        /\ UNCHANGED <<vocabulary, commands, globalState, rejected>>

WriteFileUntilAwaitStep ==
    \E path \in Paths(vocabulary) \cup KeyPaths, content \in Contents(vocabulary),
       create \in BOOLEAN, overwrite \in BOOLEAN :
        writeFileUntilAwait(path, content, create, overwrite)

DeleteUntilAwaitStep ==
    \E path \in Paths(vocabulary) \cup KeyPaths, recursive \in BOOLEAN :
        deleteUntilAwait(path, recursive)

RenameUntilAwaitStep ==
    \E oldPath \in Paths(vocabulary) \cup KeyPaths,
       newPath \in Paths(vocabulary) \cup KeyPaths, overwrite \in BOOLEAN :
        renameUntilAwait(oldPath, newPath, overwrite)

AddCommandItemUntilAwaitStep ==
    \E item \in Items(vocabulary) : addCommandItemUntilAwait(item)

\* The sessions in which calls of the provider overlap; every snapshot
\* write succeeds, and the writes complete in the order of the calls.
OverlapVocabularies == {"task", "git"}

InitOverlap == Init /\ vocabulary \in OverlapVocabularies

NextOverlap ==
    \/ WriteFileUntilAwaitStep
    \/ DeleteUntilAwaitStep
    \/ RenameUntilAwaitStep
    \/ AddCommandItemUntilAwaitStep
    \/ WriteCompletes
    \/ Resume

SpecOverlap == InitOverlap /\ [][NextOverlap]_vars

TypeOK ==
    /\ Len(commands) <= MaxCommands
    /\ Len(awaiting) <= MaxAwaiting
    /\ rejected \in 0..MaxRejected
    /\ \A i, j \in 1..Len(commands) : commands[i].key = commands[j].key => i = j

\* ------------------------------------------------------------------------
\* Properties
\* ------------------------------------------------------------------------
\* the inputs of a call in the current state
CallPaths == Paths(vocabulary) \cup KeyPaths

CallContents == Contents(vocabulary)

\* the records create and duplicate hand to addCommandItem
CreatedItems ==
    {CommandItem(IF Truthy(name) THEN name ELSE Undefined, commandContent) :
         commandContent \in TypedCommands(vocabulary) \ {Undefined},
         name \in TypedNames(vocabulary)}

DuplicatedItems ==
    {CommandItem(newName, commands[i].item.command) :
         i \in 1..Len(commands), newName \in TypedNames(vocabulary) \ {Undefined}}

CallItems == Items(vocabulary) \cup CreatedItems \cup DuplicatedItems

CallImports == SeqsUpTo(ImportedItems(vocabulary), MaxImport)

CallFiles == ImportedFiles(vocabulary)

\* how often r occurs in the sequence s
Occurrences(s, r) == Cardinality({i \in 1..Len(s) : s[i] = r})

\* the sequences s and t hold the same records, each as often
SameRecords(s, t) ==
    \A r \in {s[i] : i \in 1..Len(s)} \cup {t[i] : i \in 1..Len(t)} :
        Occurrences(s, r) = Occurrences(t, r)

\* the events of the batch the last call fired last
LastBatch == IF Len(log) = 0 THEN <<>> ELSE log[Len(log)].events

\* C1: after any sequence of addCommandItem, writeFile, rename and delete,
\* saving the mapping's values and loading them into a fresh store gives
\* back the same records, each as often as it was saved.
C1_RoundTripKeepsRecords ==
    lastOp.name \in {"addCommandItem", "writeFile", "rename", "delete"} =>
        SameRecords(MapValues(loadCommandsFromGlobalState(MapValues(commands))),
                    MapValues(commands))

\* C2: a successful rename to a file name X.cmd whose X differs from the old
\* base name leaves the record at the new key with the display name X.
C2_RenameSetsDisplayName ==
    [][lastOp'.name = "rename" =>
       \A oldPath \in CallPaths, newPath \in CallPaths, overwrite \in BOOLEAN :
        ( /\ result' = "ok"
          /\ EndsWith(FileNameOf(newPath), DotCmd)
          /\ NamePart(FileNameOf(newPath)) # NamePart(FileNameOf(oldPath))
          /\ rename(oldPath, newPath, overwrite, TRUE) )
        => /\ MapHas(commands', FileNameOf(newPath))
           /\ MapGet(commands', FileNameOf(newPath)).name = NamePart(FileNameOf(newPath))
      ]_vars

\* C3 as stated: after a successful rename(a, b) readFile(b) returns the
\* bytes readFile(a) returned before and readFile(a) fails with NotFound,
\* for all paths a and b.
C3_RenamePreservesContent_AnyPaths ==
    [][lastOp'.name = "rename" =>
       \A a \in CallPaths, b \in CallPaths, overwrite \in BOOLEAN :
        (result' = "ok" /\ rename(a, b, overwrite, TRUE))
        => /\ readFile(commands', b) = readFile(commands, a)
           /\ readFile(commands', a) = Thrown("FileNotFound")
      ]_vars

\* C3: after a successful rename(a, b) with a # b, readFile(b) returns the
\* bytes readFile(a) returned before and readFile(a) fails with NotFound.
C3_RenamePreservesContent ==
    [][lastOp'.name = "rename" =>
       \A a \in CallPaths, b \in CallPaths, overwrite \in BOOLEAN :
        (result' = "ok" /\ a # b /\ rename(a, b, overwrite, TRUE))
        => /\ readFile(commands, a).status = "ok"
           /\ readFile(commands', b) = readFile(commands, a)
           /\ readFile(commands', a) = Thrown("FileNotFound")
      ]_vars

\* a rename from a to another path b has succeeded, and b is readable
C3_Witness ==
    /\ lastOp.name = "rename"
    /\ result = "ok"
    /\ Len(LastBatch) = 2
    /\ LastBatch[1].path # LastBatch[2].path
    /\ readFile(commands, LastBatch[2].path).status = "ok"
    /\ Len(readFile(commands, LastBatch[2].path).value) > 0

\* C4: writeFile(path, bytes, {create: true, overwrite: true}) succeeds
\* whether or not the key existed, and readFile(path) then returns the
\* written text: the bytes read decode to the text the written bytes decode to.
C4_WriteThenRead ==
    [][lastOp'.name = "writeFile" =>
       \A path \in CallPaths, content \in CallContents :
        writeFile(path, content, TRUE, TRUE, TRUE)
        => /\ result' = "ok"
           /\ readFile(commands', path).status = "ok"
           /\ Utf8Decode(readFile(commands', path).value) = Utf8Decode(content)
      ]_vars

\* a write of bytes that are not the UTF-8 form of a string has succeeded
C4_Witness ==
    /\ lastOp.name = "writeFile"
    /\ result = "ok"
    /\ Len(LastBatch) = 1
    /\ readFile(commands, LastBatch[1].path).status = "ok"
    /\ Utf8Decode(readFile(commands, LastBatch[1].path).value) \in
           {Utf8Decode(IllFormedBytes), Utf8Decode(CafeBytes)}

\* C5: each addCommandItem call adds exactly one new key and leaves every
\* entry the store had as it was, so the keys stay pairwise distinct.
C5_AddNeverOverwrites ==
    [][lastOp'.name = "addCommandItem" =>
       \A item \in CallItems :
        addCommandItem(item, TRUE)
        => /\ Len(commands') = Len(commands) + 1
           /\ \A i \in 1..Len(commands) : commands'[i] = commands[i]
           /\ commands'[Len(commands')].item = item
           /\ commands'[Len(commands')].key \notin MapKeySet(commands)
           /\ Cardinality(MapKeySet(commands')) = Len(commands')
      ]_vars

\* an addCommandItem call has added a record whose slug key was taken
C5_Witness ==
    /\ lastOp.name = "addCommandItem"
    /\ result = "ok"
    /\ Len(commands) >= 2
    /\ \E i \in 1..(Len(commands) - 1) :
           commands[i].key = generateFileName(commands[Len(commands)].item)

\* the base of the slug key of item, the fallback included
SlugBase(item) == NamePart(generateFileName(item))

\* the key the i-th entry of m has when the entries that share a slug key
\* got the suffixes -1, -2, ... in insertion order
SuffixedKey(m, i) ==
    LET k == Cardinality({j \in 1..(i - 1) :
                 generateFileName(m[j].item) = generateFileName(m[i].item)})
    IN IF k = 0 THEN generateFileName(m[i].item)
       ELSE SlugBase(m[i].item) \o Dash \o NumberToString(k) \o DotCmd

SuffixOrdered(m) == \A i \in 1..Len(m) : m[i].key = SuffixedKey(m, i)

\* C6: in a store filled by addCommandItem calls alone, the k-th call that
\* collides on a base gets the key <base>-k.cmd: a call on a store whose keys
\* follow that order leaves a store whose keys follow it.
C6_SuffixesInCallOrder ==
    [][lastOp'.name = "addCommandItem" =>
       \A item \in CallItems :
        ( /\ commands = <<>> \/ lastOp.name = "addCommandItem"
          /\ SuffixOrdered(commands)
          /\ addCommandItem(item, TRUE) )
        => SuffixOrdered(commands')
      ]_vars

\* the records of the list s that no entry of the mapping m holds
NotStored(m, s) == {i \in 1..Len(s) : \A j \in 1..Len(m) : m[j].item # s[i]}

\* C7: a valid import adds one entry for every element of the list that equals
\* no stored record in name and command, none for the others, and changes no
\* entry the store had; importing the list again then adds nothing.
C7_ImportDedup ==
    [][lastOp'.name = "importCommands" =>
       \A importedCommands \in CallImports :
        (result' = "ok" /\ importCommands(JsonArray(importedCommands), 0))
        => /\ Len(commands') = Len(commands) + Cardinality(NotStored(commands, importedCommands))
           /\ \A i \in 1..Len(commands) : commands'[i] = commands[i]
           /\ \A i \in (Len(commands) + 1)..Len(commands') :
                  \E j \in NotStored(commands, importedCommands) :
                      commands'[i].item = importedCommands[j]
           /\ NotStored(commands', importedCommands) = {}
           /\ NewCommands(getAllCommandItems(commands'), importedCommands) = <<>>
      ]_vars

\* an import of a list of one new and one stored record has added one entry
C7_Witness ==
    /\ lastOp.name = "importCommands"
    /\ Len(lastOp.importedCommands) = 2
    /\ lastOp.importedCommands[1] # lastOp.importedCommands[2]
    /\ Len(log) = 3
    /\ LastBatch[1].type = "Created"

\* C8: writeFile fails with NotFound on a missing key without create, with
\* AlreadyExists on a present key with create and without overwrite, both
\* times leaving mapping and snapshot alone and firing nothing; every other
\* call succeeds.
C8_WriteFilePreconditions ==
    [][lastOp'.name = "writeFile" =>
       \A path \in CallPaths, content \in CallContents,
          create \in BOOLEAN, overwrite \in BOOLEAN :
        writeFile(path, content, create, overwrite, TRUE)
        => LET exists == MapHas(commands, FileNameOf(path))
               untouched == /\ commands' = commands
                            /\ globalState' = globalState
                            /\ log' = <<>>
           IN /\ (~exists /\ ~create) => (result' = "FileNotFound" /\ untouched)
              /\ (exists /\ create /\ ~overwrite) => (result' = "FileExists" /\ untouched)
              /\ (~(~exists /\ ~create) /\ ~(exists /\ create /\ ~overwrite))
                     => (result' = "ok" /\ MapHas(commands', FileNameOf(path)))
      ]_vars

\* a writeFile call has failed with AlreadyExists
C8_Witness ==
    /\ lastOp.name = "writeFile"
    /\ result = "FileExists"
    /\ Len(commands) > 0
    /\ log = <<>>

\* C9: rename fails with NotFound when the old key is absent and, the old
\* key being present, with AlreadyExists when the new key is present and
\* overwrite is false, both times leaving mapping and snapshot alone and
\* firing nothing.
C9_RenamePreconditions ==
    [][lastOp'.name = "rename" =>
       \A oldPath \in CallPaths, newPath \in CallPaths, overwrite \in BOOLEAN :
        LET hasOld == MapHas(commands, FileNameOf(oldPath))
            hasNew == MapHas(commands, FileNameOf(newPath))
            untouched == /\ commands' = commands
                         /\ globalState' = globalState
                         /\ log' = <<>>
        IN /\ (~hasOld /\ rename(oldPath, newPath, overwrite, TRUE))
                  => (result' = "FileNotFound" /\ untouched)
           /\ (hasOld /\ hasNew /\ ~overwrite /\ rename(oldPath, newPath, overwrite, TRUE))
                  => (result' = "FileExists" /\ untouched)
      ]_vars

\* a rename onto a present key has failed with AlreadyExists
C9_Witness ==
    /\ lastOp.name = "rename"
    /\ result = "FileExists"
    /\ Len(commands) > 0
    /\ log = <<>>

\* C10: a successful writeFile stores the base name of the path as the name
\* when the base name does not match the slug pattern and the new text does
\* not start with it, else the name of the record the key held, else no name.
C10_WriteFileNameDerivation ==
    [][lastOp'.name = "writeFile" =>
       \A path \in CallPaths, content \in CallContents,
          create \in BOOLEAN, overwrite \in BOOLEAN :
        (result' = "ok" /\ writeFile(path, content, create, overwrite, TRUE))
        => LET fileName == FileNameOf(path)
               base == NamePart(fileName)
               text == Utf8Decode(content)
           IN /\ MapHas(commands', fileName)
              /\ MapGet(commands', fileName).command = text
              /\ MapGet(commands', fileName).name =
                     IF ~MatchesSlugPattern(base) /\ ~StartsWith(text, base) THEN base
                     ELSE IF MapHas(commands, fileName) THEN MapGet(commands, fileName).name
                     ELSE Undefined
      ]_vars

\* C11: every stored record has a string as its command and a name that is
\* either absent or a string with a character that is no white space.
C11_RecordNameInvariant ==
    \A i \in 1..Len(commands) :
        LET item == commands[i].item
        IN /\ IsString(item.command)
           /\ \/ item.name = Undefined
              \/ /\ IsString(item.name)
                 /\ \E k \in 1..Len(item.name) : ~IsWhiteSpace(item.name[k])

\* the base the key of the record r is specified to have
SpecifiedBase(r) ==
    IF IsString(r.name) /\ (\E k \in 1..Len(r.name) : ~IsWhiteSpace(r.name[k]))
    THEN r.name
    ELSE LET head == SubSeq(r.command, 1, Min(20, Len(r.command)))
             slug == [k \in 1..Len(head) |->
                         IF head[k] \in (48..57) \cup (65..90) \cup (97..122)
                         THEN head[k] ELSE 95]
         IN IF slug = <<>> THEN UntitledCommand ELSE slug

GitStatusCmd ==                                                   \* "git_status.cmd"
    <<103, 105, 116, 95, 115, 116, 97, 116, 117, 115, 46, 99, 109, 100>>

\* C12: an addCommandItem call whose slug key is free appends the record
\* under <base>.cmd, base being the name if it is present and not blank, else
\* the first 20 characters of the command with every character outside
\* [A-Za-z0-9] replaced by "_", else "untitled_command"; on an empty store
\* {command: "git status"} gets git_status.cmd, which reads "git status".
C12_KeyDerivation ==
    [][lastOp'.name = "addCommandItem" =>
       \A item \in CallItems :
        ( /\ result' = "ok"
          /\ ~MapHas(commands, SpecifiedBase(item) \o DotCmd)
          /\ addCommandItem(item, TRUE) )
        => /\ commands' = Append(commands, [key |-> SpecifiedBase(item) \o DotCmd,
                                            item |-> item])
           /\ (commands = <<>> /\ item = CommandItem(Undefined, GitStatus))
                  => /\ MapKeys(commands') = <<GitStatusCmd>>
                     /\ readFile(commands', PathOf(GitStatusCmd)) = Returned(GitStatus)
      ]_vars

\* {command: "git status"} has been added to the empty store
C12_Witness ==
    /\ lastOp.name = "addCommandItem"
    /\ result = "ok"
    /\ commands = <<[key |-> GitStatusCmd, item |-> CommandItem(Undefined, GitStatus)]>>

\* C13: delete(path) on a present key removes that entry and no other,
\* writes the snapshot and then fires "deleted" for the path; on a missing
\* key it fails with NotFound, changes neither mapping nor snapshot and fires
\* nothing; options.recursive makes no difference.
C13_DeleteRemovesOne ==
    [][lastOp'.name = "delete" =>
       \A path \in CallPaths, recursive \in BOOLEAN :
        delete(path, recursive, TRUE)
        => LET fileName == FileNameOf(path)
           IN IF fileName \in MapKeySet(commands)
              THEN /\ result' = "ok"
                   /\ MapKeySet(commands') = MapKeySet(commands) \ {fileName}
                   /\ Len(commands') = Len(commands) - 1
                   /\ \A k \in MapKeySet(commands') :
                          MapGet(commands', k) = MapGet(commands, k)
                   /\ globalState' = MapValues(commands')
                   /\ log' = <<Updated(MapValues(commands')),
                               Fired(<<Event("Changed", Slash)>>),
                               Fired(<<Event("Deleted", path)>>)>>
              ELSE /\ result' = "FileNotFound"
                   /\ commands' = commands
                   /\ globalState' = globalState
                   /\ log' = <<>>
      ]_vars

\* a delete has removed one entry of a store that held more than one
C13_Witness ==
    /\ lastOp.name = "delete"
    /\ result = "ok"
    /\ Len(commands) >= 1
    /\ Len(LastBatch) = 1
    /\ LastBatch[1].type = "Deleted"
    /\ ~MapHas(commands, FileNameOf(LastBatch[1].path))

BuildCmd == Build \o DotCmd                                       \* "Build.cmd"

BuildLowerCmd == BuildLower \o DotCmd                             \* "build.cmd"

Build1Cmd == Build \o Dash \o <<49>> \o DotCmd                    \* "Build-1.cmd"

\* C15 as stated: on a store whose only key is build.cmd, holding a record
\* named "Build", addCommandItem({name: "Build", command: "npm run build"})
\* stores the record under Build-1.cmd and keeps the first.
C15_CollisionScenario_LowerCaseKey ==
    [][lastOp'.name = "addCommandItem" =>
       (( /\ result' = "ok"
          /\ MapKeys(commands) = <<BuildLowerCmd>>
          /\ commands[1].item.name = Build
          /\ addCommandItem(CommandItem(Build, NpmRunBuild), TRUE) )
        => /\ MapKeys(commands') = <<BuildLowerCmd, Build1Cmd>>
           /\ commands'[1] = commands[1]
           /\ commands'[2].item = CommandItem(Build, NpmRunBuild))
      ]_vars

\* C15: on a store whose only key is Build.cmd, holding a record named
\* "Build", addCommandItem({name: "Build", command: "npm run build"}) stores
\* the record under Build-1.cmd and keeps the first.
C15_CollisionScenario ==
    [][lastOp'.name = "addCommandItem" =>
       (( /\ result' = "ok"
          /\ MapKeys(commands) = <<BuildCmd>>
          /\ commands[1].item.name = Build
          /\ addCommandItem(CommandItem(Build, NpmRunBuild), TRUE) )
        => /\ MapKeys(commands') = <<BuildCmd, Build1Cmd>>
           /\ commands'[1] = commands[1]
           /\ commands'[2].item = CommandItem(Build, NpmRunBuild))
      ]_vars

\* the record has been added to a store that held Build.cmd alone
C15_Witness ==
    /\ lastOp.name = "addCommandItem"
    /\ result = "ok"
    /\ MapKeys(commands) = <<BuildCmd, Build1Cmd>>
    /\ commands[1].item.name = Build
    /\ commands[2].item = CommandItem(Build, NpmRunBuild)

\* the file is an array of objects, each with a string as its command and
\* a name that is absent or a string
WellFormedImport(parsed) ==
    /\ parsed.isArray
    /\ \A i \in 1..Len(parsed.elements) :
           /\ IsString(parsed.elements[i].command)
           /\ parsed.elements[i].name = Undefined \/ IsString(parsed.elements[i].name)

\* C16: an import of a file that is no array, or holds an element without a
\* string as its command or with a name that is no string, fails validation:
\* it changes neither mapping nor snapshot and fires nothing.
C16_ImportValidation ==
    [][lastOp'.name = "importCommands" =>
       \A parsed \in CallFiles :
        (~WellFormedImport(parsed) /\ importCommands(parsed, 0))
        => /\ result' = "ValidationError"
           /\ commands' = commands
           /\ globalState' = globalState
           /\ log' = <<>>
      ]_vars

\* the operations C17, C19 and C20 are about
Mutations == {"addCommandItem", "writeFile", "delete", "rename"}

\* C17: a mutating call that succeeds has first written the snapshot of the
\* mapping it leaves and has fired after that, at least once; one that
\* fails has fired nothing.
C17_PersistBeforeNotify ==
    lastOp.name \in Mutations =>
        IF result = "ok"
        THEN /\ Len(log) >= 2
             /\ log[1].kind = "update"
             /\ log[1].snapshot = MapValues(commands)
             /\ \A i \in 2..Len(log) : log[i].kind = "fire" /\ Len(log[i].events) >= 1
        ELSE log = <<>>

\* a writeFile call has written the snapshot and fired twice
C17_Witness ==
    /\ lastOp.name = "writeFile"
    /\ result = "ok"
    /\ Len(log) = 3
    /\ log[1].kind = "update"
    /\ log[3].events = <<Event("Changed", PathOf(MyTask \o DotCmd))>>

\* C18: a successful rename writes the snapshot of the mapping it leaves,
\* then fires one batch holding "deleted" for the old path followed by
\* "created" for the new path.
C18_RenameNotificationOrder ==
    [][lastOp'.name = "rename" =>
       \A oldPath \in CallPaths, newPath \in CallPaths, overwrite \in BOOLEAN :
        (result' = "ok" /\ rename(oldPath, newPath, overwrite, TRUE))
        => /\ globalState' = MapValues(commands')
           /\ log' = <<Updated(MapValues(commands')),
                       Fired(<<Event("Changed", Slash)>>),
                       Fired(<<Event("Deleted", oldPath), Event("Created", newPath)>>)>>
      ]_vars

\* a rename has written the snapshot and fired its batch of two
C18_Witness ==
    /\ lastOp.name = "rename"
    /\ result = "ok"
    /\ Len(log) = 3
    /\ log[1].kind = "update"
    /\ Len(log[3].events) = 2
    /\ log[3].events[1].type = "Deleted"
    /\ log[3].events[2].type = "Created"

\* C19: when no snapshot write fails, the snapshot is at every point between
\* two calls the list of the mapping's values.
C19_SnapshotFollowsMemory == globalState = MapValues(commands)

\* C20: a mutating call whose snapshot write is rejected fails with the
\* rejection, fires nothing, leaves the snapshot as it was and keeps its
\* mutation of the mapping; a mutating call whose write succeeds leaves the
\* snapshot equal to the mapping's values.
C20_PersistenceFailure ==
    [][lastOp'.name \in Mutations =>
       /\ result' = "ok" => globalState' = MapValues(commands')
       /\ result' = "PersistenceError" =>
           /\ log' = <<>>
           /\ globalState' = globalState
           /\ \A item \in CallItems :
                  addCommandItem(item, FALSE)
                  => /\ Len(commands') = Len(commands) + 1
                     /\ commands'[Len(commands')].item = item
           /\ \A path \in CallPaths, content \in CallContents,
                 create \in BOOLEAN, overwrite \in BOOLEAN :
                  writeFile(path, content, create, overwrite, FALSE)
                  => readFile(commands', path) = Returned(Utf8Encode(Utf8Decode(content)))
           /\ \A path \in CallPaths, recursive \in BOOLEAN :
                  delete(path, recursive, FALSE)
                  => /\ MapHas(commands, FileNameOf(path))
                     /\ ~MapHas(commands', FileNameOf(path))
           /\ \A oldPath \in CallPaths, newPath \in CallPaths, overwrite \in BOOLEAN :
                  rename(oldPath, newPath, overwrite, FALSE)
                  => /\ readFile(commands', newPath) = readFile(commands, oldPath)
                     /\ oldPath # newPath => ~MapHas(commands', FileNameOf(oldPath))
      ]_vars

\* a mutating call has failed on its snapshot write and left the snapshot
\* behind the mapping
C20_Witness ==
    /\ lastOp.name \in Mutations
    /\ result = "PersistenceError"
    /\ log = <<>>
    /\ globalState # MapValues(commands)

\* C21: an addCommandItem call whose slug key is taken stores the record
\* under <base>-<n>.cmd, base being the base of the slug key, the fallback
\* "untitled_command" included.
C21_SuffixOnFullBase ==
    [][lastOp'.name = "addCommandItem" =>
       \A item \in CallItems :
        ( /\ result' = "ok"
          /\ MapHas(commands, SpecifiedBase(item) \o DotCmd)
          /\ addCommandItem(item, TRUE) )
        => \E n \in 1..(Len(commands) + 1) :
               commands'[Len(commands')].key =
                   SpecifiedBase(item) \o Dash \o NumberToString(n) \o DotCmd
      ]_vars

\* C22: a successful rename to a file name whose base is blank and differs
\* from the old base leaves the record at the new key without a name.
C22_RenameToBlankClearsName ==
    [][lastOp'.name = "rename" =>
       \A oldPath \in CallPaths, newPath \in CallPaths, overwrite \in BOOLEAN :
        ( /\ result' = "ok"
          /\ TrimIsEmpty(NamePart(FileNameOf(newPath)))
          /\ NamePart(FileNameOf(newPath)) # NamePart(FileNameOf(oldPath))
          /\ rename(oldPath, newPath, overwrite, TRUE) )
        => /\ MapHas(commands', FileNameOf(newPath))
           /\ MapGet(commands', FileNameOf(newPath)).name = Undefined
      ]_vars

\* C23: a successful writeFile to a present key changes the command of its
\* record and nothing else: the name of the record and every other entry
\* stay as they were.
C23_EditKeepsName ==
    [][lastOp'.name = "writeFile" =>
       \A path \in CallPaths, content \in CallContents,
          create \in BOOLEAN, overwrite \in BOOLEAN :
        ( /\ result' = "ok"
          /\ MapHas(commands, FileNameOf(path))
          /\ writeFile(path, content, create, overwrite, TRUE) )
        => /\ MapKeys(commands') = MapKeys(commands)
           /\ \A k \in MapKeySet(commands) \ {FileNameOf(path)} :
                  MapGet(commands', k) = MapGet(commands, k)
           /\ MapGet(commands', FileNameOf(path)).command = Utf8Decode(content)
           /\ MapGet(commands', FileNameOf(path)).name =
                  MapGet(commands, FileNameOf(path)).name
      ]_vars

\* C24: the file name of every node of the list view is a key of the
\* store, and that key holds the record of the node.
C24_ViewAgreesWithStore ==
    \A i \in 1..Len(commands) :
        LET node == getChildren(commands)[i]
        IN /\ MapHas(commands, node.fileName)
           /\ MapGet(commands, node.fileName) = node.item

\* C25: loading the saved values of the mapping into a fresh provider gives
\* the same keys, each with the same record.
C25_KeysStableAcrossRestart ==
    LET loaded == loadCommandsFromGlobalState(MapValues(commands))
    IN /\ MapKeySet(loaded) = MapKeySet(commands)
       /\ \A k \in MapKeySet(commands) : MapGet(loaded, k) = MapGet(commands, k)

\* a call has reached its await in this step
Begins == Len(awaiting') = Len(awaiting) + 1

\* the calls that go on after their await in this step
Resuming == {i \in 1..Len(awaiting) :
                awaiting[i].stage = "written" /\ awaiting'[i].stage = "resumed"}

\* every call that reached its await has gone on after it
AllResumed == \A i \in 1..Len(awaiting) : awaiting[i].stage = "resumed"

\* each call checks and changes the mapping it finds, the changes of the
\* calls still suspended included, in one step, and no other step changes
\* the mapping
OverlapKeepsMutations ==
    /\ ~Begins => commands' = commands
    /\ (Begins /\ lastOp'.name = "addCommandItem") =>
           \A item \in CallItems :
               addCommandItemUntilAwait(item)
               => /\ Len(commands') = Len(commands) + 1
                  /\ \A i \in 1..Len(commands) : commands'[i] = commands[i]
                  /\ commands'[Len(commands')].item = item
    /\ (Begins /\ lastOp'.name = "writeFile") =>
           \A path \in CallPaths, content \in CallContents,
              create \in BOOLEAN, overwrite \in BOOLEAN :
               writeFileUntilAwait(path, content, create, overwrite)
               => /\ WriteFileCheck(MapHas(commands, FileNameOf(path)), create, overwrite) = "ok"
                  /\ readFile(commands', path) = Returned(Utf8Encode(Utf8Decode(content)))
                  /\ \A k \in MapKeySet(commands) \ {FileNameOf(path)} :
                         MapHas(commands', k) /\ MapGet(commands', k) = MapGet(commands, k)
    /\ (Begins /\ lastOp'.name = "delete") =>
           \A path \in CallPaths, recursive \in BOOLEAN :
               deleteUntilAwait(path, recursive)
               => /\ MapHas(commands, FileNameOf(path))
                  /\ MapKeySet(commands') = MapKeySet(commands) \ {FileNameOf(path)}
                  /\ \A k \in MapKeySet(commands') : MapGet(commands', k) = MapGet(commands, k)
    /\ (Begins /\ lastOp'.name = "rename") =>
           \A oldPath \in CallPaths, newPath \in CallPaths, overwrite \in BOOLEAN :
               renameUntilAwait(oldPath, newPath, overwrite)
               => /\ RenameCheck(MapHas(commands, FileNameOf(oldPath)),
                                 MapHas(commands, FileNameOf(newPath)), overwrite) = "ok"
                  /\ readFile(commands', newPath) = readFile(commands, oldPath)
                  /\ oldPath # newPath => ~MapHas(commands', FileNameOf(oldPath))
                  /\ \A k \in MapKeySet(commands) \ {FileNameOf(oldPath), FileNameOf(newPath)} :
                         MapHas(commands', k) /\ MapGet(commands', k) = MapGet(commands, k)

\* C26 as stated: when mutating calls overlap, each call checks and changes
\* the mapping in one step and no change is lost, the snapshot equals the
\* mapping's values once all calls have completed, and the snapshot equals
\* the mapping's values at the moment each call fires its notification.
C26_OverlapLosesNothing_AtEveryNotification ==
    [][ /\ OverlapKeepsMutations
        /\ AllResumed' => globalState' = MapValues(commands')
        /\ \A i \in Resuming : globalState' = MapValues(commands')
      ]_vars

\* C26: when mutating calls overlap, each call checks and changes the
\* mapping in one step and no change is lost, the snapshot equals the
\* mapping's values once all calls have completed, and at the moment a call
\* fires its notification the snapshot holds the values the mapping had
\* after the change of that call or of a later one: the mapping's values
\* when no later call has reached its await.
C26_OverlapLosesNothing ==
    [][ /\ OverlapKeepsMutations
        /\ AllResumed' => globalState' = MapValues(commands')
        /\ \A i \in Resuming :
               /\ globalState' \in {awaiting[j].snapshot : j \in i..Len(awaiting)}
               /\ i = Len(awaiting) => globalState' = MapValues(commands')
      ]_vars

\* the first of two calls has fired its notification while the second,
\* begun during the await of the first, is suspended on its snapshot write
C26_Witness ==
    /\ Len(awaiting) = 2
    /\ awaiting[1].stage = "resumed"
    /\ awaiting[2].stage = "writing"
    /\ lastOp.name = awaiting[1].name
    /\ result = "ok"
    /\ Len(log) = 3
    /\ globalState = awaiting[1].snapshot
    /\ globalState # MapValues(commands)

====
